---- MODULE Spec2Model ----
(***************************************************************************)
(* Model of variable_morph.py: the VariableMorpher class, which erodes a   *)
(* boolean image band by band, each horizontal band with its own           *)
(* structuring element.                                                    *)
(*                                                                         *)
(* A grid (image, output, scratch buffer) is a record [h, w, on] where on  *)
(* is the set of <<row, col>> cells (0-based) that are true.               *)
(* self.diBands is a Python dict: it is modelled as the sequence of its    *)
(* entries in insertion order; the code always iterates it through         *)
(* sorted(self.diBands.keys()).                                            *)
(***************************************************************************)
EXTENDS Integers, Sequences, FiniteSets, TLC

VARIABLES
    diBands,     \* self.diBands: entries in insertion order
    isSetup,     \* self.isSetup
    img,         \* the image most recently handed to binary_erosion (initially the caller's image)
    setupShape,  \* the shape argument of the most recent setup call
    lastConfig,  \* the most recent configuration call that returned: "none", "addBand" or "setup"
    ret          \* outcome of the most recent call: what it returned or raised

vars == <<diBands, isSetup, img, setupShape, lastConfig, ret>>

----------------------------------------------------------------------------
(* Bounds *)

\* image heights are 1..MaxHeight; band keys are 0..MaxHeight
MaxHeight == 4
\* number of columns of the small images
Width == 3
\* the largest radius handed to addBand
MaxRadius == 2
\* the caller registers at most MaxBands distinct bands
MaxBands == 2
\* the small images have at most MaxHoles false cells
MaxHoles == 1

(* The regression test's image size and its first band, lines 144 and 148 *)
RegHeight == 15
RegWidth == 10
RegSplit == 8

----------------------------------------------------------------------------
(* Helpers *)

Min(a, b) == IF a < b THEN a ELSE b
Max(a, b) == IF a > b THEN a ELSE b

Range(s) == {s[i] : i \in 1..Len(s)}

Cells(h, w) == (0..(h-1)) \X (0..(w-1))

Grid(h, w, on) == [h |-> h, w |-> w, on |-> on]

ShapeOf(g) == <<g.h, g.w>>

ShapeNames == {"square", "diamond"}

Abs(x) == IF x < 0 THEN -x ELSE x

(* Variant: the diamond is built as a square *)
SelemSquareOnly(shape, radius) == {d \in (-radius..radius) \X (-radius..radius) : TRUE}

(* skmorph.square(radius*2+1) and skmorph.diamond(radius), as the set of   *)
(* offsets from the centre at which the mask is 1.                         *)
Selem(shape, radius) ==
    IF shape = "square"
    THEN {d \in (-radius..radius) \X (-radius..radius) : TRUE}
    ELSE {d \in (-radius..radius) \X (-radius..radius) : Abs(d[1]) + Abs(d[2]) <= radius}

(* A band that has no 'buf' entry yet, and np.empty buffers *)
NoBuf == [alloc |-> FALSE, init |-> FALSE, h |-> 0, w |-> 0, on |-> {}]
EmptyBuf(h, w) == [alloc |-> TRUE, init |-> FALSE, h |-> h, w |-> w, on |-> {}]

(* Variant: the keys are iterated in insertion order *)
sortedKeepsOrder(keys) == keys

(* sorted(): the keys of a dict are distinct, so sorting the list of keys  *)
(* is listing its set of keys in ascending order.                          *)
RECURSIVE SortSet(_)
SortSet(S) ==
    IF S = {} THEN <<>>
    ELSE LET m == CHOOSE x \in S : \A y \in S : x <= y
         IN  <<m>> \o SortSet(S \ {m})

sorted(keys) == SortSet(Range(keys))

(* self.diBands.keys() and self.diBands[row] *)
KeysOf(di) == [i \in 1..Len(di) |-> di[i].maxrow]
IndexOf(di, row) == CHOOSE i \in 1..Len(di) : di[i].maxrow = row
HasKey(di, row) == \E i \in 1..Len(di) : di[i].maxrow = row

----------------------------------------------------------------------------
(* addBand, lines 51-67 *)

NewBand(maxrow, radius, shape) ==
    [maxrow |-> maxrow, shape |-> shape, radius |-> radius,
     selem |-> Selem(shape, radius), buf |-> NoBuf]

(* self.diBands[maxrow] = {...}: a new key is appended, an existing key    *)
(* keeps its place and gets a fresh entry (without 'buf').                 *)
DictSet(di, maxrow, band) ==
    IF HasKey(di, maxrow)
    THEN [di EXCEPT ![IndexOf(di, maxrow)] = band]
    ELSE Append(di, band)

(* What a call hands back to the caller: None (RetNone), an exception      *)
(* (RetRaise) or, for binary_erosion, the output grid [h, w, on].          *)
(* written lists the rows of out that each erode_in_band call wrote, and   *)
(* again tells that the call repeats the previous, successful              *)
(* binary_erosion call on the same image.                                  *)
RetNone(op) ==
    [op |-> op, status |-> "ok", h |-> 0, w |-> 0, on |-> {}, written |-> <<>>, again |-> FALSE]
RetRaise(op, status) ==
    [op |-> op, status |-> status, h |-> 0, w |-> 0, on |-> {}, written |-> <<>>, again |-> FALSE]

(* Variant: addBand leaves isSetup as it is *)
addBandKeepsReady(maxrow, radius, shape) ==
    /\ maxrow >= 0
    /\ radius >= 1
    /\ shape \in ShapeNames
    /\ HasKey(diBands, maxrow) \/ Len(diBands) < MaxBands
    /\ diBands' = DictSet(diBands, maxrow, NewBand(maxrow, radius, shape))
    /\ lastConfig' = "addBand"
    /\ ret' = RetNone("addBand")
    /\ UNCHANGED <<isSetup, img, setupShape>>

addBand(maxrow, radius, shape) ==
    /\ maxrow >= 0
    /\ radius >= 1
    /\ shape \in ShapeNames
    /\ HasKey(diBands, maxrow) \/ Len(diBands) < MaxBands
    /\ isSetup' = FALSE
    /\ diBands' = DictSet(diBands, maxrow, NewBand(maxrow, radius, shape))
    /\ lastConfig' = "addBand"
    /\ ret' = RetNone("addBand")
    /\ UNCHANGED <<img, setupShape>>

----------------------------------------------------------------------------
(* setup, lines 70-85 *)

SetupRowMin(lastrow, radius) == Max(0, lastrow - radius)

(* Variant: the bottom of the padded window is not clamped to the image *)
SetupRowMaxUnclamped(shape, row, radius) == row + radius

SetupRowMax(shape, row, radius) == Min(shape[1], row + radius)

(* The loop of lines 77-83 from position idx of the sorted keys on.        *)
(* np.empty raises ValueError on a negative dimension, which ends setup    *)
(* with the buffers of the earlier bands already replaced.                 *)
RECURSIVE SetupLoop(_, _, _, _, _)
SetupLoop(di, keys, idx, lastrow, shape) ==
    IF idx > Len(keys) THEN [di |-> di, status |-> "ok"]
    ELSE LET row    == keys[idx]
             i      == IndexOf(di, row)
             this   == di[i]
             rowmin == SetupRowMin(lastrow, this.radius)
             rowmax == SetupRowMax(shape, row, this.radius)
         IN  IF rowmax - rowmin < 0
             THEN [di |-> di, status |-> "ValueError"]
             ELSE SetupLoop([di EXCEPT ![i].buf = EmptyBuf(rowmax - rowmin, shape[2])],
                            keys, idx + 1, row, shape)

setup(shape) ==
    LET res == SetupLoop(diBands, sorted(KeysOf(diBands)), 1, 0, shape)
    IN  /\ diBands' = res.di
        /\ isSetup' = IF res.status = "ok" THEN TRUE ELSE isSetup
        /\ lastConfig' = IF res.status = "ok" THEN "setup" ELSE lastConfig
        /\ setupShape' = shape
        /\ ret' = IF res.status = "ok" THEN RetNone("setup") ELSE RetRaise("setup", res.status)
        /\ UNCHANGED img

----------------------------------------------------------------------------
(* erode_in_band, lines 87-121 *)

(* skmorph.binary_erosion(inslice, selem): a cell is true iff every cell   *)
(* under the structuring element centred on it is true; cells outside the  *)
(* slice count as zeros (comment of lines 104-105).                        *)
BinaryErosion(inslice, selem) ==
    {p \in Cells(inslice.h, inslice.w) :
        \A d \in selem : <<p[1] + d[1], p[2] + d[2]>> \in inslice.on}

(* img[rowmin:rowmax,:] *)
RowSlice(g, rowmin, rowmax) ==
    Grid(rowmax - rowmin, g.w,
         {<<p[1] - rowmin, p[2]>> : p \in {q \in g.on : q[1] >= rowmin /\ q[1] < rowmax}})

RowMin(rowstart, radius) == Max(0, rowstart - radius)
RowMax(imgh, rowend, radius) == Min(imgh, rowend + radius)

BufMin(rowmin, radius) == IF rowmin = 0 THEN 0 ELSE radius
(* Variant: the bottom margin is trimmed at the image edge too *)
BufMaxAlwaysTrims(rowmax, imgh, bufh, radius) == bufh - radius

BufMax(rowmax, imgh, bufh, radius) == IF rowmax = imgh THEN bufh ELSE bufh - radius

(* Variant: the band's rows are taken from the top of out *)
OutSliceFromTop(rowstart, rowend) == 0..(rowend - 1)

(* The rows of out that out[rowstart:rowend,:] denotes *)
OutSlice(rowstart, rowend) == rowstart..(rowend - 1)

(* Variant: only the true cells are copied, over what out held *)
CopyToKeepsOld(out, rows, rowstart, bandbuf, bufmin, bufmax) ==
    [out EXCEPT !.on =
        out.on \cup {<<p[1] - bufmin + rowstart, p[2]>> :
                         p \in {q \in bandbuf.on : q[1] >= bufmin /\ q[1] < bufmax}}]

(* np.copyto(outslice, bandslice): rows bufmin..bufmax-1 of the buffer     *)
(* replace rows rowstart..rowend-1 of out.                                 *)
CopyTo(out, rows, rowstart, bandbuf, bufmin, bufmax) ==
    [out EXCEPT !.on =
        {p \in out.on : p[1] \notin rows}
        \cup {<<p[1] - bufmin + rowstart, p[2]>> :
                 p \in {q \in bandbuf.on : q[1] >= bufmin /\ q[1] < bufmax}}]

(* One call of erode_in_band: the status it ends with, the band's buffer   *)
(* and the output grid as it leaves them, and the rows of out it wrote.    *)
erode_in_band(image, rowstart, rowend, out, radius, selem, bandbuf) ==
    IF ~ (/\ rowstart >= 0
          /\ rowend <= image.h
          /\ rowstart < rowend
          /\ ShapeOf(image) = ShapeOf(out)
          /\ radius >= 1)
    THEN [status |-> "PreconditionError", buf |-> bandbuf, out |-> out, rows |-> {}]
    ELSE
    LET rowmin  == RowMin(rowstart, radius)
        rowmax  == RowMax(image.h, rowend, radius)
        inslice == RowSlice(image, rowmin, rowmax)
    IN  IF <<bandbuf.h, bandbuf.w>> # ShapeOf(inslice)
        THEN [status |-> "KernelShapeError", buf |-> bandbuf, out |-> out, rows |-> {}]
        ELSE
        LET newbuf == [bandbuf EXCEPT !.init = TRUE, !.on = BinaryErosion(inslice, selem)]
            bufmin == BufMin(rowmin, radius)
            bufmax == BufMax(rowmax, image.h, newbuf.h, radius)
        IN  IF (rowend - rowstart) # (bufmax - bufmin)
            THEN [status |-> "InvariantViolation", buf |-> newbuf, out |-> out, rows |-> {}]
            ELSE [status |-> "ok", buf |-> newbuf,
                  out |-> CopyTo(out, OutSlice(rowstart, rowend), rowstart, newbuf, bufmin, bufmax),
                  rows |-> OutSlice(rowstart, rowend)]

----------------------------------------------------------------------------
(* binary_erosion, lines 124-140 *)

(* np.empty(img.shape): the cells of a fresh grid hold whatever the        *)
(* allocator left there.                                                   *)
UninitGrids(h, w) == {Grid(h, w, {}), Grid(h, w, Cells(h, w))}

(* The loop of lines 136-139 from position idx of the sorted keys on; the  *)
(* first call that raises ends it.                                         *)
RECURSIVE ErodeLoop(_, _, _, _, _, _, _)
ErodeLoop(di, keys, idx, lastrow, image, out, written) ==
    IF idx > Len(keys)
    THEN [di |-> di, status |-> "ok", out |-> out, written |-> written]
    ELSE LET row  == keys[idx]
             i    == IndexOf(di, row)
             this == di[i]
         IN  IF ~ this.buf.alloc
             THEN [di |-> di, status |-> "KeyError", out |-> out, written |-> written]
             ELSE
             LET res == erode_in_band(image, lastrow, row, out, this.radius, this.selem, this.buf)
                 di2 == [di EXCEPT ![i].buf = res.buf]
             IN  IF res.status # "ok"
                 THEN [di |-> di2, status |-> res.status, out |-> res.out, written |-> written]
                 ELSE ErodeLoop(di2, keys, idx + 1, row, image, res.out,
                                Append(written, res.rows))

binary_erosion(image) ==
    /\ img' = image
    /\ UNCHANGED <<isSetup, setupShape, lastConfig>>
    /\ IF ~ isSetup
       THEN /\ ret' = RetRaise("erode", "StateError")
            /\ UNCHANGED diBands
       ELSE \E fresh \in UninitGrids(image.h, image.w) :
              LET res == ErodeLoop(diBands, sorted(KeysOf(diBands)), 1, 0, image, fresh, <<>>)
              IN  /\ diBands' = res.di
                  /\ ret' = IF res.status = "ok"
                            THEN [op |-> "erode", status |-> "ok", h |-> res.out.h,
                                  w |-> res.out.w, on |-> res.out.on, written |-> res.written,
                                  again |-> (ret.op = "erode" /\ ret.status = "ok" /\ img = image)]
                            ELSE [RetRaise("erode", res.status) EXCEPT !.written = res.written]

----------------------------------------------------------------------------
(* Images *)

FullImage(h, w) == Grid(h, w, Cells(h, w))

(* All h-by-w images with at most MaxHoles false cells *)
HoleImages(h, w) ==
    {Grid(h, w, Cells(h, w) \ holes) :
        holes \in {s \in SUBSET Cells(h, w) : Cardinality(s) <= MaxHoles}}

(* The regression test's image, lines 144-146 *)
RegressionImage ==
    Grid(RegHeight, RegWidth,
         {p \in Cells(RegHeight, RegWidth) :
             \/ p[1] >= 6 /\ p[2] >= 2 /\ p[2] < 7
             \/ p[2] >= 3 /\ p[2] < 6})

NoCall == RetNone("none")

InitMorpher ==
    /\ diBands = <<>>
    /\ isSetup = FALSE
    /\ setupShape = <<0, 0>>
    /\ lastConfig = "none"
    /\ ret = NoCall

----------------------------------------------------------------------------
(* Spec: any sequence of addBand / setup / binary_erosion calls on small   *)
(* images of two heights.                                                  *)

Heights == {1, MaxHeight}
Keys == 0..MaxHeight
Radii == {0, 1, MaxRadius}
LifecycleImages == {FullImage(h, Width) : h \in Heights}

Init == InitMorpher /\ img \in LifecycleImages

LifecycleShapes == {"diamond"}

AddBandCall ==
    \E maxrow \in Keys, radius \in Radii, shape \in LifecycleShapes :
        addBand(maxrow, radius, shape)

SetupCall == \E h \in Heights : setup(<<h, Width>>)

ErodeCall == \E image \in LifecycleImages : binary_erosion(image)

Next == AddBandCall \/ SetupCall \/ ErodeCall

Spec == Init /\ [][Next]_vars

----------------------------------------------------------------------------
(* SpecSeam: a caller that configures one band over the whole image, or    *)
(* two adjacent bands with the same radius and shape, then calls setup     *)
(* with the image's shape and erodes the image, for every small image.     *)

SeamImages == UNION {HoleImages(h, Width) : h \in 1..MaxHeight}

InitSeam == InitMorpher /\ img \in SeamImages

SeamAddSplit ==
    /\ diBands = <<>>
    /\ \E k \in 1..(img.h - 1), radius \in 1..MaxRadius, shape \in ShapeNames :
          addBand(k, radius, shape)

SeamAddWhole ==
    /\ ~ HasKey(diBands, img.h)
    /\ \E radius \in 1..MaxRadius, shape \in ShapeNames :
          /\ diBands # <<>> => radius = diBands[1].radius /\ shape = diBands[1].shape
          /\ addBand(img.h, radius, shape)

SeamSetup == HasKey(diBands, img.h) /\ ~ isSetup /\ setup(ShapeOf(img))

SeamErode == isSetup /\ binary_erosion(img)

NextSeam == SeamAddSplit \/ SeamAddWhole \/ SeamSetup \/ SeamErode

SpecSeam == InitSeam /\ [][NextSeam]_vars

----------------------------------------------------------------------------
(* SpecRegression: any sequence of calls with the regression test's image, *)
(* shape and band boundaries (lines 143-153).                              *)

InitRegression == InitMorpher /\ img = RegressionImage

RegAddBand ==
    \E maxrow \in {RegSplit, RegHeight}, radius \in 1..MaxRadius, shape \in ShapeNames :
        addBand(maxrow, radius, shape)

RegSetup == setup(ShapeOf(RegressionImage))

RegErode == binary_erosion(RegressionImage)

NextRegression == RegAddBand \/ RegSetup \/ RegErode

SpecRegression == InitRegression /\ [][NextRegression]_vars

----------------------------------------------------------------------------
(* SpecOrder: any sequence of calls on one image of full height, with      *)
(* bands inside the image registered in any order.                         *)

InitOrder == InitMorpher /\ img = FullImage(MaxHeight, Width)

OrderAddBand ==
    \E maxrow \in 1..MaxHeight, radius \in Radii, shape \in LifecycleShapes :
        addBand(maxrow, radius, shape)

OrderSetup == setup(ShapeOf(img))

OrderErode == binary_erosion(img)

NextOrder == OrderAddBand \/ OrderSetup \/ OrderErode

SpecOrder == InitOrder /\ [][NextOrder]_vars

----------------------------------------------------------------------------
(* Vocabulary of the properties *)

KeySet(di) == Range(KeysOf(di))

BandOf(di, k) == di[IndexOf(di, k)]

(* The band table as a mapping from upperBound to (radius, shape) *)
BandMap(di) == [k \in KeySet(di) |-> <<BandOf(di, k).radius, BandOf(di, k).shape>>]

(* The previous band's upperBound, 0 for the first band *)
PrevKey(di, k) ==
    LET below == {j \in KeySet(di) : j < k}
    IN  IF below = {} THEN 0 ELSE CHOOSE j \in below : \A i \in below : i <= j

(* The largest upperBound, 0 for an empty table *)
LastKey(di) ==
    IF KeySet(di) = {} THEN 0
    ELSE CHOOSE j \in KeySet(di) : \A i \in KeySet(di) : i <= j

(* The buffer height that the sizing rule gives the band keyed k *)
PaddedRows(di, k, height) ==
    Min(height, k + BandOf(di, k).radius) - Max(0, PrevKey(di, k) - BandOf(di, k).radius)

(* Erosion of the whole image in one piece *)
WholeErosion(image, selem) == BinaryErosion(image, selem)

ErodeStep == ret'.op = "erode"
AddBandStep == ret'.op = "addBand"
SetupStep == ret'.op = "setup"

Perms(n) == {f \in [1..n -> 1..n] : \A i, j \in 1..n : f[i] = f[j] => i = j}
Reorder(di, f) == [i \in 1..Len(di) |-> di[f[i]]]
BufMap(di) == [k \in KeySet(di) |-> BandOf(di, k).buf]

----------------------------------------------------------------------------
(* C1: an erode call is rejected with a state error unless the most recent *)
(* configuration call was a setup: it is rejected when no setup was called *)
(* yet and when an addBand was called since the last setup.  A setup that  *)
(* returns makes the morpher Ready, every addBand makes it Unconfigured,   *)
(* and erode does not change readiness.                                    *)
C1_ErodeOnlyWhenReady ==
    [][ /\ (ErodeStep /\ lastConfig # "setup") => ret'.status = "StateError"
        /\ (ErodeStep /\ ret'.status # "StateError") => isSetup
        /\ AddBandStep => ~ isSetup'
        /\ (SetupStep /\ ret'.status = "ok") => isSetup'
        /\ ErodeStep => isSetup' = isSetup ]_vars

(* An erode call after addBand, with buffers of an earlier setup still in  *)
(* the table, was rejected.                                                *)
C1_Witness ==
    /\ ret.op = "erode" /\ ret.status = "StateError"
    /\ lastConfig = "addBand"
    /\ \E i \in 1..Len(diBands) : diBands[i].buf.alloc

----------------------------------------------------------------------------
(* C2: with two adjacent bands (k, r, s) and (H, r, s), 0 < k < H, and     *)
(* setup on the image's shape, erode returns the erosion of the whole      *)
(* image with that structuring element.                                    *)
TwoEqualBands ==
    /\ Len(diBands) = 2
    /\ diBands[1].maxrow > 0 /\ diBands[1].maxrow < img.h
    /\ diBands[2].maxrow = img.h
    /\ diBands[1].radius = diBands[2].radius
    /\ diBands[1].shape = diBands[2].shape

C2_SeamlessBoundary ==
    (TwoEqualBands /\ isSetup /\ setupShape = ShapeOf(img) /\ ret.op = "erode")
    => /\ ret.status = "ok"
       /\ ret.on = WholeErosion(img, Selem(diBands[1].shape, diBands[1].radius))

----------------------------------------------------------------------------
(* C3: when every band lies inside the image (0 <= rowStart < rowEnd <= H) *)
(* and the buffers were sized by setup for the image's shape, the size     *)
(* check of erode_in_band never fails.                                     *)
C3_SizeCheckHolds ==
    (/\ ret.op = "erode"
     /\ isSetup
     /\ setupShape = ShapeOf(img)
     /\ \A k \in KeySet(diBands) : k >= 1 /\ k <= img.h)
    => ret.status # "InvariantViolation"

----------------------------------------------------------------------------
(* C4: the regression scenario.  As the spec states it: rows 0-5 and 8-12  *)
(* have only column 4 true, rows 6-7 exactly columns 3-5, rows 13-14       *)
(* nothing.                                                                *)
RegressionBands ==
    /\ KeySet(diBands) = {RegSplit, RegHeight}
    /\ BandMap(diBands)[RegSplit] = <<1, "diamond">>
    /\ BandMap(diBands)[RegHeight] = <<2, "square">>

RegressionRun == RegressionBands /\ isSetup /\ ret.op = "erode"

ClaimedGrid ==
    {p \in Cells(RegHeight, RegWidth) :
        \/ (p[1] <= 5 \/ (p[1] >= 8 /\ p[1] <= 12)) /\ p[2] = 4
        \/ (p[1] = 6 \/ p[1] = 7) /\ p[2] >= 3 /\ p[2] <= 5}

C4_ScenarioAsStated == RegressionRun => ret.status = "ok" /\ ret.on = ClaimedGrid

(* C4 amended: row 0 is entirely false as well (the grid of lines 154-169);*)
(* rows 1-5 and 8-12 have only column 4 true, rows 6-7 exactly columns     *)
(* 3-5, rows 13-14 nothing; both scratch buffers are 9 by 10.              *)
IntendedGrid ==
    {p \in Cells(RegHeight, RegWidth) :
        \/ ((p[1] >= 1 /\ p[1] <= 5) \/ (p[1] >= 8 /\ p[1] <= 12)) /\ p[2] = 4
        \/ (p[1] = 6 \/ p[1] = 7) /\ p[2] >= 3 /\ p[2] <= 5}

C4_Scenario ==
    RegressionRun =>
        /\ ret.status = "ok"
        /\ ret.on = IntendedGrid
        /\ \A k \in KeySet(diBands) :
              BandOf(diBands, k).buf.h = 9 /\ BandOf(diBands, k).buf.w = 10

C4_Witness == RegressionRun /\ ret.status = "ok" /\ <<6, 3>> \in ret.on

----------------------------------------------------------------------------
(* C5: with the single band (H, r, s) and setup on the image's shape,      *)
(* erode returns the erosion of the whole image with that structuring      *)
(* element.                                                                *)
SingleBand == Len(diBands) = 1 /\ diBands[1].maxrow = img.h

C5_SingleBandEquivalence ==
    (SingleBand /\ isSetup /\ setupShape = ShapeOf(img) /\ ret.op = "erode")
    => /\ ret.status = "ok"
       /\ <<ret.h, ret.w>> = ShapeOf(img)
       /\ ret.on = WholeErosion(img, Selem(diBands[1].shape, diBands[1].radius))

(* A single-band erosion of an image with a hole that leaves a cell true *)
C5_Witness ==
    /\ SingleBand /\ isSetup /\ ret.op = "erode" /\ ret.status = "ok"
    /\ img.on # Cells(img.h, img.w)
    /\ ret.on # {}

----------------------------------------------------------------------------
(* C6 as stated: two successive successful erode calls on the same image,  *)
(* the band table unchanged, return identical grids.                       *)
RepeatedErode ==
    /\ ret.op = "erode" /\ ret.status = "ok"
    /\ ret'.op = "erode" /\ ret'.status = "ok"
    /\ img' = img
    /\ BandMap(diBands') = BandMap(diBands)

C6_RepeatableAsStated == [][RepeatedErode => ret'.on = ret.on]_vars

(* C6 amended: the two grids agree on every row below the largest          *)
(* upperBound (on every row when the bands cover the image height); the    *)
(* rows at and below it are never written and hold unspecified values.     *)
C6_Repeatable ==
    [][RepeatedErode =>
          /\ <<ret'.h, ret'.w>> = <<ret.h, ret.w>>
          /\ \A p \in Cells(ret.h, ret.w) :
                p[1] < LastKey(diBands) => (p \in ret'.on <=> p \in ret.on)]_vars

(* A repeated erosion with two bands whose output is not all false *)
C6_Witness ==
    /\ ret.op = "erode" /\ ret.status = "ok" /\ ret.again
    /\ Len(ret.written) = 2
    /\ \E p \in ret.on : p[1] < LastKey(diBands)

----------------------------------------------------------------------------
(* C7 as stated: in a successful erode call every row of the output is     *)
(* written by exactly one band.                                            *)
Writers(row) == {i \in 1..Len(ret.written) : row \in ret.written[i]}

C7_RowPartitionAsStated ==
    (ret.op = "erode" /\ ret.status = "ok")
    => \A row \in 0..(ret.h - 1) : Cardinality(Writers(row)) = 1

(* C7 amended: no row is written by two bands; the i-th band in ascending  *)
(* key order writes exactly the rows [previous upperBound, upperBound);    *)
(* in a successful call every row below the largest upperBound is written  *)
(* by exactly one band and the rows from the largest upperBound on are     *)
(* written by none.                                                        *)
C7_RowPartition ==
    ret.op = "erode" =>
        /\ \A i, j \in 1..Len(ret.written) :
              i # j => ret.written[i] \cap ret.written[j] = {}
        /\ \A i \in 1..Len(ret.written) :
              LET k == SortSet(KeySet(diBands))[i]
              IN  ret.written[i] = PrevKey(diBands, k)..(k - 1)
        /\ ret.status = "ok" =>
              \A row \in 0..(ret.h - 1) :
                  Cardinality(Writers(row)) = IF row < LastKey(diBands) THEN 1 ELSE 0

C7_Witness ==
    /\ ret.op = "erode" /\ ret.status = "ok"
    /\ Len(ret.written) = 2
    /\ LastKey(diBands) = ret.h

----------------------------------------------------------------------------
(* C8: after a setup((height, width)) that returns, every band owns a      *)
(* buffer of min(height, upperBound + radius) - max(0, bandStart - radius) *)
(* rows by width columns, bandStart being the previous band's upperBound   *)
(* in ascending order (0 for the first); this is the height of the padded  *)
(* window [rowMin, rowMax) that erode_in_band computes for that band on an *)
(* image of that shape.                                                    *)
C8_BufferSizing ==
    (ret.op = "setup" /\ ret.status = "ok") =>
        \A k \in KeySet(diBands) :
            LET this == BandOf(diBands, k)
            IN  /\ this.buf.alloc
                /\ this.buf.h = PaddedRows(diBands, k, setupShape[1])
                /\ this.buf.w = setupShape[2]
                /\ this.buf.h = RowMax(setupShape[1], k, this.radius)
                                  - RowMin(PrevKey(diBands, k), this.radius)

(* A setup of two bands where the padded window is clamped at the top for  *)
(* one band and at the bottom for the other.                               *)
C8_Witness ==
    /\ ret.op = "setup" /\ ret.status = "ok"
    /\ Len(diBands) = 2
    /\ \E k \in KeySet(diBands) :
          /\ PrevKey(diBands, k) > 0
          /\ PrevKey(diBands, k) - BandOf(diBands, k).radius < 0
          /\ k + BandOf(diBands, k).radius > setupShape[1]

----------------------------------------------------------------------------
(* C9: whenever the morpher is Ready, every band in the table owns a       *)
(* scratch buffer of the size that the sizing rule gives it for the        *)
(* current band table and the shape of the most recent setup.              *)
C9_ReadyBuffers ==
    isSetup =>
        \A k \in KeySet(diBands) :
            /\ BandOf(diBands, k).buf.alloc
            /\ BandOf(diBands, k).buf.h = PaddedRows(diBands, k, setupShape[1])
            /\ BandOf(diBands, k).buf.w = setupShape[2]

----------------------------------------------------------------------------
(* C10: an addBand call adds its band or replaces the band of the same     *)
(* upperBound, leaving the other bands as they are (last call wins, no     *)
(* second band for a key); and what setup and erode do depends only on the *)
(* mapping from upperBound to band, not on the order in which the bands    *)
(* were registered: on every reordering of the table the iteration order   *)
(* is the same, a setup call leaves the same buffers and an erode call     *)
(* has the same outcome as on the table as it is.                          *)
LastCallWins ==
    \A k \in Keys, r \in Radii, s \in LifecycleShapes :
        addBand(k, r, s) =>
            /\ KeySet(diBands') = KeySet(diBands) \cup {k}
            /\ Len(diBands') = Cardinality(KeySet(diBands'))
            /\ BandMap(diBands')[k] = <<r, s>>
            /\ \A j \in KeySet(diBands) \ {k} :
                  BandOf(diBands', j) = BandOf(diBands, j)

(* What setup and binary_erosion would have done on the table reordered by f *)
SetupOf(f) ==
    LET p == Reorder(diBands, f)
    IN  SetupLoop(p, sorted(KeysOf(p)), 1, 0, setupShape')

ErodeOf(f, fresh) ==
    LET p == Reorder(diBands, f)
    IN  ErodeLoop(p, sorted(KeysOf(p)), 1, 0, img', fresh, <<>>)

SameSetup(f) ==
    LET r == SetupOf(f)
    IN  r.status = ret'.status /\ BufMap(r.di) = BufMap(diBands')

SameErode(f) ==
    \E fresh \in UninitGrids(img'.h, img'.w) :
        LET r == ErodeOf(f, fresh)
        IN  /\ r.status = ret'.status
            /\ r.written = ret'.written
            /\ ret'.status = "ok" => r.out.on = ret'.on
            /\ BufMap(r.di) = BufMap(diBands')

OrderIndependent ==
    /\ \A f \in Perms(Len(diBands)) :
          sorted(KeysOf(Reorder(diBands, f))) = sorted(KeysOf(diBands))
    /\ SetupStep => \A f \in Perms(Len(diBands)) : SameSetup(f)
    /\ (ErodeStep /\ isSetup) => \A f \in Perms(Len(diBands)) : SameErode(f)

C10_OrderIndependence == [][LastCallWins /\ OrderIndependent]_vars

(* Two bands registered in descending order of upperBound, set up and      *)
(* eroded successfully.                                                    *)
C10_Witness ==
    /\ Len(diBands) = 2
    /\ diBands[1].maxrow > diBands[2].maxrow
    /\ ret.op = "erode" /\ ret.status = "ok"
    /\ Len(ret.written) = 2

====
